---- MODULE Spec2Model ----
(***************************************************************************)
(* Report-delivery pipeline of the DOM data capture server (src/server.py) *)
(* and the session dashboard's token cache (src/dashboard.py).             *)
(*                                                                         *)
(* Text is modelled as a sequence of characters (one-character strings).   *)
(* The fixed pieces of a caption or of an error message are single         *)
(* elements of the sequence, written in ASCII (the module's strings cannot *)
(* hold the Vietnamese letters of the source literals).                    *)
(***************************************************************************)
EXTENDS Integers, Sequences, FiniteSets, TLC

VARIABLES
  \* ---- report composer (capture, src/server.py:245-299) ----
  sample,      \* payload["data"]: field name -> field form
  force22h,    \* payload.get('force_22h', False)
  nowHour,     \* datetime.now().hour
  report,      \* what the composer produced (NoReport before it ran)
  \* ---- gateway client (WPPConnectClient, src/server.py:51-141) ----
  program,     \* which of the repository's programs runs: "server" or "dashboard"
  client,      \* the WPPConnectClient object: token, Authorization header
  send,        \* the send_image / send_text call in progress and its gateway calls
  prevSend,    \* summary of the send completed before this one
  \* ---- dashboard (src/dashboard.py) ----
  cache,       \* TOKEN_CACHE: session -> token ("None": no entry)
  dash,        \* the dashboard request being handled and its gateway calls
  prevAcq,     \* per session: summary of the last get_access_token call
  issuedFor,   \* per session: the base_url and secret_key of the request whose
               \* generate-token call yielded the cached token
  conc,        \* the dashboard handlers running concurrently on TOKEN_CACHE
  \* ---- capture directory (src/server.py:145-188) ----
  files,       \* SCREENSHOT_DIR as os.listdir lists it: name, .png or not, mtime
  now,         \* the clock, in seconds (time.time(), datetime.now())
  swept,       \* the last run of the sweep: its argument and the directory before
  events,      \* the /api/capture requests handled concurrently on the directory
  \* ---- capture handler (capture, src/server.py:203-333) ----
  cap          \* the /api/capture request being handled and its response

composeVars == <<sample, force22h, nowHour, report>>
clientVars == <<client, send, prevSend>>
dashVars == <<cache, dash, prevAcq, issuedFor, conc>>
gatewayVars ==
  <<program, client, send, prevSend, cache, dash, prevAcq, issuedFor, conc>>

dirVars == <<files, now, swept, events>>

vars ==
  <<sample, force22h, nowHour, report, program, client, send, prevSend,
    cache, dash, prevAcq, issuedFor, conc, files, now, swept, events, cap>>

(***************************************************************************)
(* Python text primitives used by the source: str.strip, int(), float(),   *)
(* str(int), str.join, the `in` substring test and str.replace.            *)
(***************************************************************************)
Whitespace == {" ", "\t", "\n"}

Digits == {"0", "1", "2", "3", "4", "5", "6", "7", "8", "9"}

DigitVal(c) ==
  CASE c = "0" -> 0 [] c = "1" -> 1 [] c = "2" -> 2 [] c = "3" -> 3
    [] c = "4" -> 4 [] c = "5" -> 5 [] c = "6" -> 6 [] c = "7" -> 7
    [] c = "8" -> 8 [] c = "9" -> 9

DigitChar(d) == <<"0", "1", "2", "3", "4", "5", "6", "7", "8", "9">>[d + 1]

RECURSIVE LStrip(_)
LStrip(s) == IF s # <<>> /\ Head(s) \in Whitespace THEN LStrip(Tail(s)) ELSE s

RECURSIVE RStrip(_)
RStrip(s) ==
  IF s # <<>> /\ s[Len(s)] \in Whitespace
  THEN RStrip(SubSeq(s, 1, Len(s) - 1))
  ELSE s

\* str.strip()
Strip(s) == RStrip(LStrip(s))

AllDigits(s) == s # <<>> /\ \A i \in 1..Len(s) : s[i] \in Digits

Unsigned(s) == IF s # <<>> /\ Head(s) \in {"+", "-"} THEN Tail(s) ELSE s

\* int(s) does not raise ValueError: an optional sign and at least one digit
IsInt(s) == AllDigits(Unsigned(s))

RECURSIVE NatVal(_)
NatVal(s) ==
  IF s = <<>> THEN 0
  ELSE 10 * NatVal(SubSeq(s, 1, Len(s) - 1)) + DigitVal(s[Len(s)])

\* int(s), for IsInt(s)
IntVal(s) == IF Head(s) = "-" THEN 0 - NatVal(Unsigned(s)) ELSE NatVal(Unsigned(s))

\* float(s) does not raise ValueError: sign? (digits [. digits?] | . digits)
\* (the characters drawn for the samples hold no exponent, "inf" or "nan")
IsFloat(s) ==
  LET u == Unsigned(s)
      dots == {i \in 1..Len(u) : u[i] = "."}
  IN  /\ u # <<>>
      /\ \A i \in 1..Len(u) : u[i] \in Digits \cup {"."}
      /\ Cardinality(dots) <= 1
      /\ \E i \in 1..Len(u) : u[i] \in Digits

\* float(s) < 0, for IsFloat(s): a minus sign and a digit other than 0
FloatIsNegative(s) ==
  /\ Head(s) = "-"
  /\ \E i \in 1..Len(s) : s[i] \in Digits \ {"0"}

RECURSIVE NatToStr(_)
NatToStr(n) ==
  IF n < 10 THEN <<DigitChar(n)>>
  ELSE NatToStr(n \div 10) \o <<DigitChar(n % 10)>>

\* str(n) of an int
IntToStr(n) == IF n < 0 THEN <<"-">> \o NatToStr(0 - n) ELSE NatToStr(n)

\* sep.join(parts)
RECURSIVE Join(_, _)
Join(sep, parts) ==
  IF parts = <<>> THEN <<>>
  ELSE IF Len(parts) = 1 THEN parts[1]
  ELSE parts[1] \o sep \o Join(sep, Tail(parts))

\* needle in hay
Contains(hay, needle) ==
  \E i \in 0..(Len(hay) - Len(needle)) :
    \A j \in 1..Len(needle) : hay[i + j] = needle[j]

(***************************************************************************)
(* Report composer: the part of capture() between the screenshot and the   *)
(* delivery (src/server.py:244-301).                                       *)
(*                                                                         *)
(* A field of payload["data"] is: absent; a dict with or without a         *)
(* "value" string (form "dict"); a dict whose "value" is not a string, a   *)
(* JSON number or null (form "dictnum"); or a bare string (form "bare").   *)
(***************************************************************************)
FieldNames == {"DC", "AWS", "TAP", "F", "M", "DEG"}

Absent == [form |-> "absent", hasValue |-> FALSE, value |-> <<>>, found |-> FALSE]
Dict(v) == [form |-> "dict", hasValue |-> TRUE, value |-> v, found |-> TRUE]
DictNotFound(v) == [form |-> "dict", hasValue |-> TRUE, value |-> v, found |-> FALSE]
DictNoValue == [form |-> "dict", hasValue |-> FALSE, value |-> <<>>, found |-> TRUE]
DictNum == [form |-> "dictnum", hasValue |-> TRUE, value |-> <<>>, found |-> TRUE]
Bare(v) == [form |-> "bare", hasValue |-> TRUE, value |-> v, found |-> TRUE]

\* a payload without any field
NoSample == [n \in FieldNames |-> Absent]

\* datetime.now().hour, an hour before the evening report and the hour of it
Hours == {21, 22}

\* get_val(name) raises AttributeError: info.get('value', '') is not a str
GetValRaises(data, name) == data[name].form = "dictnum"

\* get_val(name) when it does not raise
GetVal(data, name) ==
  LET info == data[name] IN
  IF info.form = "absent" THEN Strip(<<>>)
  ELSE IF info.form = "dict"
       THEN Strip(IF info.hasValue THEN info.value ELSE <<>>)
       ELSE Strip(info.value)

\* mutant: the check stops at the first missing field
MissingFields_FirstFail(dc, aws, tap) ==
  IF dc = <<>> THEN <<"DC">>
  ELSE IF aws = <<>> THEN <<"AWS">>
  ELSE IF tap = <<>> THEN <<"TAP">>
  ELSE <<>>

\* missing = []; if not dc: missing.append("DC"); ... AWS; ... TAP
MissingFields(dc, aws, tap) ==
  LET m1 == IF dc = <<>> THEN <<"DC">> ELSE <<>>
      m2 == IF aws = <<>> THEN Append(m1, "AWS") ELSE m1
      m3 == IF tap = <<>> THEN Append(m2, "TAP") ELSE m2
  IN  m3

\* f"Missing required fields: {', '.join(missing)}"
MissingMessage(missing) ==
  <<"Missing required fields: ">>
    \o Join(<<", ">>, [i \in 1..Len(missing) |-> <<missing[i]>>])

\* f"Invalid TAP value: {tap}"
InvalidTapMessage(tap) == <<"Invalid TAP value: ">> \o tap

\* mutant: M is parsed but not subtracted
ActiveDevices_WithoutM(dc, f_val, m_val) ==
  IF IsInt(dc) /\ (f_val = <<>> \/ IsInt(f_val)) /\ (m_val = <<>> \/ IsInt(m_val))
  THEN LET n == IntVal(dc) - (IF f_val = <<>> THEN 0 ELSE IntVal(f_val))
       IN  [isInt |-> TRUE, num |-> n, text |-> IntToStr(n)]
  ELSE [isInt |-> FALSE, num |-> 0, text |-> dc]

\* try: active = int(dc) - (int(f) if f else 0) - (int(m) if m else 0)
\* except ValueError: active = dc
ActiveDevices(dc, f_val, m_val) ==
  IF IsInt(dc) /\ (f_val = <<>> \/ IsInt(f_val)) /\ (m_val = <<>> \/ IsInt(m_val))
  THEN LET n == IntVal(dc)
                 - (IF f_val = <<>> THEN 0 ELSE IntVal(f_val))
                 - (IF m_val = <<>> THEN 0 ELSE IntVal(m_val))
       IN  [isInt |-> TRUE, num |-> n, text |-> IntToStr(n)]
  ELSE [isInt |-> FALSE, num |-> 0, text |-> dc]

\* "BC BLĐ: Hiện tại 12 TB đang dừng, tốc độ gió thấp."
StoppedCaption == <<"BC BLD: Hien tai 12 TB dang dung, toc do gio thap.">>

\* mutant: wind speed and power change places
ActiveCaption_Swapped(active, aws, tap) ==
  <<"BC BLD: Hien tai ">> \o active.text
    \o <<" TB dang hoat dong, ">> \o <<"toc do gio ">> \o tap
    \o <<" m/s, ">> \o <<"cong suat phat ">> \o aws \o <<" MW.">>

\* f"BC BLĐ: Hiện tại {active} TB đang hoạt động, tốc độ gió {aws} m/s,
\*   công suất phát {tap} MW."
ActiveCaption(active, aws, tap) ==
  <<"BC BLD: Hien tai ">> \o active.text
    \o <<" TB dang hoat dong, ">> \o <<"toc do gio ">> \o aws
    \o <<" m/s, ">> \o <<"cong suat phat ">> \o tap \o <<" MW.">>

\* mutant: the sign test is reversed
MainCaption_Reversed(active, aws, tap) ==
  IF FloatIsNegative(tap) THEN ActiveCaption(active, aws, tap) ELSE StoppedCaption

\* if tap_num < 0: fixed message, else the templated sentence
MainCaption(active, aws, tap) ==
  IF FloatIsNegative(tap) THEN StoppedCaption ELSE ActiveCaption(active, aws, tap)

\* f" Sản lượng đầu cực đến 22h đạt {deg} MWh."
EveningAddendum(deg) == <<" San luong dau cuc den 22h dat ">> \o deg \o <<" MWh.">>

\* mutant: the hour and the flag are both required
EveningDue_Both(force, hour, deg) == (hour = 22 /\ force) /\ deg # <<>>

\* if (current_hour == 22 or force_22h) and deg: caption += addendum
EveningDue(force, hour, deg) == (hour = 22 \/ force) /\ deg # <<>>

WithEvening(caption, force, hour, deg) ==
  IF EveningDue(force, hour, deg) THEN caption \o EveningAddendum(deg) ELSE caption

NoValues ==
  [DC |-> <<>>, AWS |-> <<>>, TAP |-> <<>>, F |-> <<>>, M |-> <<>>,
   DEG |-> <<>>, active |-> <<>>]

NoReport ==
  [kind |-> "none", status |-> 0, error |-> <<>>, caption |-> <<>>, values |-> NoValues]

\* The composer's result for one payload: kind "raise" (an AttributeError of
\* get_val, left to the handler's except clause), "missing" and "invalid_tap"
\* (the two 400 returns) or "ok" (the caption and the values of the 200 body).
Compose(data, force, hour) ==
  IF \E n \in FieldNames : GetValRaises(data, n)
  THEN [NoReport EXCEPT !.kind = "raise"]
  ELSE
    LET dc == GetVal(data, "DC")
        aws == GetVal(data, "AWS")
        tap == GetVal(data, "TAP")
        f_val == GetVal(data, "F")
        m_val == GetVal(data, "M")
        deg == GetVal(data, "DEG")
        missing == MissingFields(dc, aws, tap)
        active == ActiveDevices(dc, f_val, m_val)
    IN  IF missing # <<>>
        THEN [NoReport EXCEPT !.kind = "missing", !.status = 400,
                              !.error = MissingMessage(missing)]
        ELSE IF ~IsFloat(tap)
        THEN [NoReport EXCEPT !.kind = "invalid_tap", !.status = 400,
                              !.error = InvalidTapMessage(tap)]
        ELSE [kind |-> "ok", status |-> 200, error |-> <<>>,
              caption |-> WithEvening(MainCaption(active, aws, tap), force, hour, deg),
              values |-> [DC |-> dc, AWS |-> aws, TAP |-> tap, F |-> f_val,
                          M |-> m_val, DEG |-> deg, active |-> active.text]]

(***************************************************************************)
(* Retention sweep and screenshot capture (src/server.py:145-188).         *)
(*                                                                         *)
(* The directory is the sequence of its entries in the order os.listdir    *)
(* returns them. A retention argument is a number of days or None          *)
(* (defined = FALSE). The loop runs inside one try: an exception raised at *)
(* an entry (os.path.getmtime or os.remove on a .png) or by os.listdir     *)
(* itself ends the sweep there.                                            *)
(***************************************************************************)
DaySeconds == 86400

\* config.get('max_retention_days', 3)
DefaultRetentionDays == 3

\* a retention argument: days / per days (the JSON number of config.json
\* can be a fraction of a day)
NoDays == [defined |-> FALSE, days |-> 0, per |-> 1]
Days(n) == [defined |-> TRUE, days |-> n, per |-> 1]
DayFraction(d) == [defined |-> TRUE, days |-> 1, per |-> d]

\* retention_days * 86400, in seconds
Window(ret) == (ret.days * DaySeconds) \div ret.per

\* the entries of fs from index i on that the sweep leaves in the directory
RECURSIVE Kept(_, _, _, _)
Kept(fs, i, cutoff, last) ==
  IF i > Len(fs) THEN <<>>
  ELSE IF i <= last /\ fs[i].png /\ fs[i].mtime < cutoff
       THEN Kept(fs, i + 1, cutoff, last)
       ELSE <<fs[i]>> \o Kept(fs, i + 1, cutoff, last)

\* mutant: files exactly as old as the cutoff are deleted too
Cleanup_AtCutoff(fs, t, ret, listFails, fail) ==
  IF ~ret.defined \/ ret.days <= 0 THEN fs
  ELSE IF listFails THEN fs
  ELSE Kept(fs, 1, t - Window(ret) + 1,
            IF fail = 0 THEN Len(fs) ELSE fail - 1)

\* cleanup_old_screenshots(retention_days) at time t. listFails: os.listdir
\* raises. fail = 0: no exception in the loop; fail = k: the k-th entry
\* raises, the entries before it have been handled.
Cleanup(fs, t, ret, listFails, fail) ==
  IF ~ret.defined \/ ret.days <= 0 THEN fs
  ELSE IF listFails THEN fs
  ELSE Kept(fs, 1, t - Window(ret),
            IF fail = 0 THEN Len(fs) ELSE fail - 1)

\* where the loop can raise: at a .png entry
FailPoints(fs) == {0} \cup {k \in 1..Len(fs) : fs[k].png}

\* the argument take_fullscreen_screenshot passes to the sweep
RetentionArg(config) ==
  IF config.retKey = "absent" THEN Days(DefaultRetentionDays)
  ELSE IF config.retKey = "null" THEN NoDays
  ELSE Days(config.days)

\* path = capture_<YYYYmmdd_HHMMSS>.png: one name per clock second
CaptureName(t) == <<"capture", t>>

\* img.save(path): a new entry, or the entry of that name written again
Saved(fs, t) ==
  IF \E i \in 1..Len(fs) : fs[i].name = CaptureName(t)
  THEN [i \in 1..Len(fs) |->
          IF fs[i].name = CaptureName(t) THEN [fs[i] EXCEPT !.mtime = t] ELSE fs[i]]
  ELSE Append(fs, [name |-> CaptureName(t), png |-> TRUE, mtime |-> t])

\* mutant: the capture is taken without the sweep
AfterScreenshot_NoSweep(fs, t, config, listFails, fail, shotOK) ==
  IF shotOK THEN Saved(fs, t) ELSE fs

\* the directory after take_fullscreen_screenshot: the sweep runs when
\* config.json loads, then the capture is saved unless pyautogui raises
AfterScreenshot(fs, t, config, listFails, fail, shotOK) ==
  LET swept1 == IF config.exists
                THEN Cleanup(fs, t, RetentionArg(config), listFails, fail)
                ELSE fs
  IN  IF shotOK THEN Saved(swept1, t) ELSE swept1

NoSweep ==
  [valid |-> FALSE, before |-> <<>>, at |-> 0, arg |-> NoDays, keyAbsent |-> FALSE,
   raised |-> FALSE, failAt |-> 0]

\* the server's request threads (app.run serves each request on its own)
CaptureThreads == {1, 2}

NoPath == <<>>

\* a request thread with no request: id numbers the inbound events, ret is
\* the retention argument of its sweep, path the artifact it saved, read the
\* event whose capture it read when encoding (0: nothing read)
IdleEvent ==
  [pc |-> "idle", id |-> 0, ret |-> NoDays, path |-> NoPath, read |-> 0,
   ret_ok |-> FALSE]

\* content: which event's capture each file of the directory holds;
\* writers: every img.save so far, as (path, event)
IdleEvents ==
  [th |-> [t \in CaptureThreads |-> IdleEvent], received |-> 0,
   content |-> {}, writers |-> {}]

InitDirIdle ==
  /\ files = <<>>
  /\ now = 0
  /\ swept = NoSweep
  /\ events = IdleEvents

(***************************************************************************)
(* Gateway client: WPPConnectClient (src/server.py:51-141).                *)
(*                                                                         *)
(* A token is "None" (Python's None, also the body of a 2xx answer without *)
(* a token field) or a token the gateway issued. The Authorization header  *)
(* is "absent" or the token it carries ("None" is the text "Bearer None"). *)
(* Every gateway call of a send is one step and is appended to send.calls. *)
(***************************************************************************)
Tokens == {"t1", "t2"}

\* not self.token
Falsy(t) == t \in {"None", ""}

\* __init__: self.token = None; self.headers has no Authorization
NewClientObject == [token |-> "None", auth |-> "absent", used |-> FALSE]

\* what http_requests.post can do for generate-token: raise, answer non-2xx,
\* answer 2xx with a body that is no JSON object, with a JSON object without
\* "token", or with a token
GenResponses ==
  {[raised |-> TRUE, status |-> 0, json |-> FALSE, token |-> "None"],
   [raised |-> FALSE, status |-> 500, json |-> FALSE, token |-> "None"],
   [raised |-> FALSE, status |-> 200, json |-> FALSE, token |-> "None"],
   [raised |-> FALSE, status |-> 201, json |-> TRUE, token |-> "t1"]}
  \cup {[raised |-> FALSE, status |-> 200, json |-> TRUE, token |-> t] :
          t \in {"None"} \cup Tokens}

\* what http_requests.post can do for send-image / send-message: raise, or
\* answer with a status (204: a 2xx status that is neither 200 nor 201)
SendResponses ==
  {[raised |-> TRUE, status |-> 0]}
  \cup {[raised |-> FALSE, status |-> st] : st \in {200, 201, 204, 401, 500}}

\* mutant: every status below 500 counts as accepted
Is2xx_Below500(r) == ~r.raised /\ r.status < 500

\* response.status_code in [200, 201]
Is2xx(r) == ~r.raised /\ r.status \in {200, 201}

\* _generate_token returns True
GenerateOk(r) == Is2xx(r) /\ r.json

\* the client after _generate_token got response r
AfterGenerate(c, r) ==
  IF GenerateOk(r) THEN [c EXCEPT !.token = r.token, !.auth = r.token] ELSE c

\* phone_number.replace('+', '')
RECURSIVE RemovePlus(_)
RemovePlus(s) ==
  IF s = <<>> THEN <<>>
  ELSE IF Head(s) = "+" THEN RemovePlus(Tail(s))
  ELSE <<Head(s)>> \o RemovePlus(Tail(s))

GroupMarker == <<"@", "g", ".", "u", "s">>

\* is_group = "@g.us" in phone_number
IsGroup(target) == Contains(target, GroupMarker)

\* mutant: the '+' is removed from group ids too
ChatId_Always(target) == RemovePlus(target)

\* chat_id = phone_number if is_group else phone_number.replace('+', '')
ChatId(target) == IF IsGroup(target) THEN target ELSE RemovePlus(target)

\* the POST of generate-token (no headers) and what came back
GenCall(r) ==
  [ep |-> "generate-token", auth |-> "absent", phone |-> <<>>, isGroup |-> FALSE,
   raised |-> r.raised, status |-> r.status, json |-> r.json, token |-> r.token]

\* the POST of send-image / send-message with self.headers and the payload
PostCall(c, kind, target, r) ==
  [ep |-> IF kind = "image" THEN "send-image" ELSE "send-message",
   auth |-> c.auth, phone |-> ChatId(target), isGroup |-> IsGroup(target),
   raised |-> r.raised, status |-> r.status, json |-> FALSE, token |-> "None"]

\* raises: an exception left send_image / send_text (ret is then not set)
IdleSend ==
  [pc |-> "idle", kind |-> "none", target |-> <<>>, fileOK |-> TRUE,
   calls |-> <<>>, ret |-> FALSE, raises |-> FALSE, reused |-> FALSE]

\* a phone_number of config.json that is a JSON number, not a string
NonStringTarget == <<"#number">>

NoPrevSend ==
  [valid |-> FALSE, gens |-> 0, saw401 |-> FALSE, held |-> FALSE, stale |-> "none",
   excepted |-> FALSE]

\* the calls of a send, by endpoint
GenCalls(calls) == SelectSeq(calls, LAMBDA c : c.ep = "generate-token")
PostCalls(calls) == SelectSeq(calls, LAMBDA c : c.ep # "generate-token")
Saw401(calls) == \E i \in 1..Len(calls) : ~calls[i].raised /\ calls[i].status = 401

\* the token of the last request of calls that was answered 401 with no
\* successful generate-token call after it ("none": there is none)
Rejected(calls) ==
  {i \in 1..Len(calls) :
     /\ calls[i].ep # "generate-token"
     /\ ~calls[i].raised /\ calls[i].status = 401
     /\ calls[i].auth \notin {"absent", "None"}
     /\ \A j \in (i + 1)..Len(calls) :
          ~(calls[j].ep = "generate-token" /\ GenerateOk(calls[j]))}

StaleToken(calls) ==
  IF Rejected(calls) = {} THEN "none"
  ELSE calls[CHOOSE i \in Rejected(calls) : \A j \in Rejected(calls) : j <= i].auth

Finish(sd, result) == [sd EXCEPT !.pc = "done", !.ret = result]

\* an exception was raised during the send: by a gateway call (timeout,
\* connection refused), by response.json() on a malformed generate-token
\* answer, or by reading the image file
Excepted(sd) ==
  \/ \E i \in 1..Len(sd.calls) : sd.calls[i].raised
  \/ \E i \in 1..Len(sd.calls) :
       /\ sd.calls[i].ep = "generate-token"
       /\ Is2xx(sd.calls[i]) /\ ~sd.calls[i].json
  \/ sd.kind = "image" /\ ~sd.fileOK /\ sd.pc = "done" /\ PostCalls(sd.calls) = <<>>
       /\ (sd.calls = <<>> \/ GenerateOk(sd.calls[Len(sd.calls)]))

\* mutant: the image is read outside the try, an unreadable file raises
AfterEnsure_Unguarded(sd) ==
  IF sd.target = NonStringTarget \/ (sd.kind = "image" /\ ~sd.fileOK)
  THEN [sd EXCEPT !.pc = "done", !.raises = TRUE]
  ELSE [sd EXCEPT !.pc = "post1"]

\* after the token is ensured: the image is read and encoded (send_image
\* only, an unreadable file returns False), then the request is posted
AfterEnsure(sd) ==
  IF sd.target = NonStringTarget
  THEN [sd EXCEPT !.pc = "done", !.raises = TRUE]    \* "@g.us" in 84...: TypeError
  ELSE IF sd.kind = "image" /\ ~sd.fileOK THEN Finish(sd, FALSE)
  ELSE [sd EXCEPT !.pc = "post1"]

\* mutant: the held token is ignored and a token is generated for every send
Enter_AlwaysGenerate(c, kind, target, fileOK) ==
  [IdleSend EXCEPT !.kind = kind, !.target = target, !.fileOK = fileOK,
                   !.reused = c.used, !.pc = "gen0"]

\* send_image / send_text is entered: if not self.token: _generate_token()
Enter(c, kind, target, fileOK) ==
  LET sd == [IdleSend EXCEPT !.kind = kind, !.target = target,
                             !.fileOK = fileOK, !.reused = c.used]
  IN  IF Falsy(c.token) THEN [sd EXCEPT !.pc = "gen0"] ELSE AfterEnsure(sd)

Targets ==
  {<<"8", "4">>, <<"+", "8", "4">>, <<"8", "+", "4">>, <<"+", "+", "8">>,
   <<"1", "@", "g", ".", "u", "s">>, <<"+", "1", "@", "g", ".", "u", "s">>,
   <<"+", "@", "g", ".", "u">>}

InitClientVars ==
  /\ client = NewClientObject
  /\ send = IdleSend
  /\ prevSend = NoPrevSend

\* client = WPPConnectClient(...), as capture() does for every event
NewClient ==
  /\ program = "server"
  /\ send.pc = "idle"
  /\ client.used
  /\ client' = NewClientObject
  /\ UNCHANGED <<program, send, prevSend, composeVars, dashVars, dirVars, cap>>

CallSendImage ==
  /\ program = "server"
  /\ send.pc = "idle"
  /\ \E target \in Targets, fileOK \in BOOLEAN :
       send' = Enter(client, "image", target, fileOK)
  /\ UNCHANGED <<program, client, prevSend, composeVars, dashVars, dirVars, cap>>

CallSendText ==
  /\ program = "server"
  /\ send.pc = "idle"
  /\ \E target \in Targets : send' = Enter(client, "text", target, TRUE)
  /\ UNCHANGED <<program, client, prevSend, composeVars, dashVars, dirVars, cap>>

\* if not self.token: if not self._generate_token(): return False
EnsureToken ==
  /\ send.pc = "gen0"
  /\ \E r \in GenResponses :
       LET sd == [send EXCEPT !.calls = Append(@, GenCall(r))] IN
       /\ client' = AfterGenerate(client, r)
       /\ send' = IF GenerateOk(r) THEN AfterEnsure(sd) ELSE Finish(sd, FALSE)
  /\ UNCHANGED <<program, prevSend, composeVars, dashVars, dirVars, cap>>

\* res = post(...); 401 goes on to _generate_token, anything else is final
FirstPost ==
  /\ send.pc = "post1"
  /\ \E r \in SendResponses :
       LET sd == [send EXCEPT !.calls = Append(@, PostCall(client, send.kind, send.target, r))]
       IN  send' = IF r.raised THEN Finish(sd, FALSE)
                   ELSE IF r.status = 401 THEN [sd EXCEPT !.pc = "gen1"]
                   ELSE Finish(sd, Is2xx(r))
  /\ UNCHANGED <<program, client, prevSend, composeVars, dashVars, dirVars, cap>>

\* mutant: the request is posted again even when _generate_token failed
Reacquire_RetryAnyway ==
  /\ send.pc = "gen1"
  /\ \E r \in GenResponses :
       LET sd == [send EXCEPT !.calls = Append(@, GenCall(r))] IN
       /\ client' = AfterGenerate(client, r)
       /\ send' = [sd EXCEPT !.pc = "post2"]
  /\ UNCHANGED <<program, prevSend, composeVars, dashVars, dirVars, cap>>

\* if res.status_code == 401: if self._generate_token(): res = post(...)
Reacquire ==
  /\ send.pc = "gen1"
  /\ \E r \in GenResponses :
       LET sd == [send EXCEPT !.calls = Append(@, GenCall(r))] IN
       /\ client' = AfterGenerate(client, r)
       /\ send' = IF GenerateOk(r) THEN [sd EXCEPT !.pc = "post2"]
                  ELSE Finish(sd, FALSE)
  /\ UNCHANGED <<program, prevSend, composeVars, dashVars, dirVars, cap>>

\* the retried post; its status decides
RetryPost ==
  /\ send.pc = "post2"
  /\ \E r \in SendResponses :
       LET sd == [send EXCEPT !.calls = Append(@, PostCall(client, send.kind, send.target, r))]
       IN  send' = Finish(sd, Is2xx(r))
  /\ UNCHANGED <<program, client, prevSend, composeVars, dashVars, dirVars, cap>>

\* the send returns to its caller
SendReturn ==
  /\ program = "server"
  /\ send.pc = "done"
  /\ prevSend' = [valid |-> TRUE, gens |-> Len(GenCalls(send.calls)),
                  saw401 |-> Saw401(send.calls), held |-> ~Falsy(client.token),
                  stale |-> StaleToken(send.calls), excepted |-> Excepted(send)]
  /\ client' = [client EXCEPT !.used = TRUE]
  /\ send' = IdleSend
  /\ UNCHANGED <<program, composeVars, dashVars, dirVars, cap>>

(***************************************************************************)
(* Capture handler: capture() (src/server.py:203-333). A request is the    *)
(* payload (sample, force22h, nowHour hold its content) and the            *)
(* config.json of the moment. The handler runs to its delivery in one      *)
(* step, the delivery is the client's send, then the response is built.    *)
(*                                                                         *)
(* payload: "unreadable" (request.json raises on the body), "none" (no or  *)
(* empty JSON), "nondict" (a non-empty JSON value that is no object),      *)
(* "baddata" (an object whose "data" is no object), "sample" (an object    *)
(* whose "data" is the sample).                                            *)
(***************************************************************************)
NoResponse ==
  [status |-> 0, success |-> FALSE, error |-> <<>>, caption |-> <<>>,
   values |-> NoValues]

NoConfig ==
  [exists |-> FALSE, retKey |-> "absent", days |-> 0, wpp |-> FALSE,
   hasPhone |-> FALSE, phone |-> <<>>]

\* ops: the delivery operations the handler called, each with its caption
IdleCapture ==
  [pc |-> "idle", payload |-> "none", config |-> NoConfig, shot |-> FALSE,
   ops |-> <<>>, resp |-> NoResponse]

\* return jsonify({"success": False, "error": "No JSON payload"}), 400
NoPayloadResponse ==
  [NoResponse EXCEPT !.status = 400, !.error = <<"No JSON payload">>]

\* return jsonify({"success": False, "error": msg}), 400
ValidationResponse(r) == [NoResponse EXCEPT !.status = 400, !.error = r.error]

\* mutant: the exception is not caught and leaves the handler
ExceptionResponse_Escapes == [NoResponse EXCEPT !.error = <<"unhandled">>]

\* except Exception as e: return jsonify({"success": False, "error": str(e)}), 500
ExceptionResponse == [NoResponse EXCEPT !.status = 500, !.error = <<"str(e)">>]

\* return jsonify({"success": False, "error": "WhatsApp sending failed"}), 500
SendFailedResponse ==
  [NoResponse EXCEPT !.status = 500, !.error = <<"WhatsApp sending failed">>]

\* return jsonify({"success": True, "caption": caption, "values": {...}})
SuccessResponse(r) ==
  [status |-> 200, success |-> TRUE, error |-> <<>>, caption |-> r.caption,
   values |-> r.values]

\* mutant: a send that returned False still counts when the caption exists
DeliveryResponse_Partial(sd, r) ==
  IF sd.raises THEN ExceptionResponse
  ELSE IF sd.ret \/ r.caption # <<>> THEN SuccessResponse(r)
  ELSE SendFailedResponse

\* what send_success, or the exception of the send, makes of the request
DeliveryResponse(sd, r) ==
  IF sd.raises THEN ExceptionResponse
  ELSE IF sd.ret THEN SuccessResponse(r)
  ELSE SendFailedResponse

SampleOf(dc, aws, tap, f, m, deg) ==
  [DC |-> dc, AWS |-> aws, TAP |-> tap, F |-> f, M |-> m, DEG |-> deg]

CaptureSamples ==
  {SampleOf(Dict(<<"1", "2">>), Dict(<<"5", ".", "3">>), Dict(<<"2", ".", "1">>),
            Dict(<<"1">>), Dict(<<"1">>), Dict(<<"1", "5", "0">>)),
   SampleOf(Dict(<<"1", "2">>), Dict(<<"5", ".", "3">>), Dict(<<"-", "2", ".", "1">>),
            Dict(<<"1">>), Dict(<<"1">>), Absent),
   SampleOf(Absent, Dict(<<"5", ".", "3">>), Dict(<<" ">>), Absent, Absent, Absent),
   SampleOf(Dict(<<"1", "2">>), Dict(<<"5", ".", "3">>), Dict(<<"x">>),
            Absent, Absent, Absent),
   SampleOf(Dict(<<"1", "2">>), Dict(<<"5", ".", "3">>), Dict(<<"2", ".", "1">>),
            DictNum, Absent, Absent)}

CaptureConfigs ==
  {NoConfig}
  \cup {[exists |-> TRUE, retKey |-> k, days |-> 1, wpp |-> w, hasPhone |-> TRUE,
         phone |-> ph] :
          k \in {"absent", "number"}, w \in BOOLEAN,
          ph \in {<<"+", "8", "4">>, <<"1", "@", "g", ".", "u", "s">>, NonStringTarget}}
  \cup {[exists |-> TRUE, retKey |-> "absent", days |-> 1, wpp |-> TRUE,
         hasPhone |-> FALSE, phone |-> <<>>]}

Payloads == {"unreadable", "none", "nondict", "baddata", "sample"}

\* a request arrives at /api/capture
CaptureReceive ==
  /\ cap.pc = "idle"
  /\ \E pl \in Payloads, cfg \in CaptureConfigs :
       /\ cap' = [IdleCapture EXCEPT !.pc = "received", !.payload = pl, !.config = cfg]
       /\ IF pl = "sample"
          THEN /\ sample' \in CaptureSamples
               /\ force22h' \in BOOLEAN
               /\ nowHour' \in Hours
          ELSE UNCHANGED <<sample, force22h, nowHour>>
  /\ UNCHANGED <<report, gatewayVars, dirVars>>

\* capture() from its entry to the call of send_image / send_text, or to
\* the response it returns before any delivery
CaptureHandle ==
  /\ cap.pc = "received"
  /\ \E listFails \in BOOLEAN, fail \in FailPoints(files), shotOK \in BOOLEAN,
        fileOK \in BOOLEAN :
       LET cfg == cap.config
           early == cap.payload \in {"unreadable", "none"} \/ ~cfg.exists
                      \/ cap.payload \in {"nondict", "baddata"}
           r == Compose(sample, force22h, nowHour)
           keysMissing == ~cfg.wpp \/ ~cfg.hasPhone
       IN  IF early
           THEN /\ cap' = [cap EXCEPT !.pc = "responded",
                             !.resp = IF cap.payload = "none" THEN NoPayloadResponse
                                      ELSE ExceptionResponse]
                /\ UNCHANGED <<report, client, send, dirVars>>
           ELSE /\ files' = AfterScreenshot(files, now, cfg, listFails, fail, shotOK)
                /\ swept' = [valid |-> TRUE, before |-> files, at |-> now,
                             arg |-> RetentionArg(cfg),
                             keyAbsent |-> cfg.retKey = "absent",
                             raised |-> listFails \/ fail # 0,
                    failAt |-> IF listFails THEN 0 ELSE fail]
                /\ report' = r
                /\ UNCHANGED <<now, events>>
                /\ IF r.kind = "raise"
                   THEN /\ cap' = [cap EXCEPT !.pc = "responded", !.shot = shotOK,
                                              !.resp = ExceptionResponse]
                        /\ UNCHANGED <<client, send>>
                   ELSE IF r.kind # "ok"
                   THEN /\ cap' = [cap EXCEPT !.pc = "responded", !.shot = shotOK,
                                              !.resp = ValidationResponse(r)]
                        /\ UNCHANGED <<client, send>>
                   ELSE IF keysMissing
                   THEN /\ cap' = [cap EXCEPT !.pc = "responded", !.shot = shotOK,
                                              !.resp = ExceptionResponse]
                        /\ UNCHANGED <<client, send>>
                   ELSE /\ cap' = [cap EXCEPT
                                     !.pc = "sending", !.shot = shotOK,
                                     !.ops = <<[kind |-> IF shotOK THEN "image" ELSE "text",
                                                caption |-> r.caption]>>]
                        /\ client' = NewClientObject
                        /\ send' = Enter(NewClientObject,
                                         IF shotOK THEN "image" ELSE "text",
                                         cfg.phone, shotOK => fileOK)
  /\ UNCHANGED <<sample, force22h, nowHour, program, prevSend, dashVars>>

\* mutant: a send_image that returned False is followed by a send_text
CaptureRespond_Fallback ==
  /\ cap.pc = "sending"
  /\ send.pc = "done"
  /\ IF send.kind = "image" /\ ~send.ret /\ ~send.raises
     THEN /\ cap' = [cap EXCEPT !.ops = Append(@, [kind |-> "text",
                                                    caption |-> report.caption])]
          /\ send' = Enter(client, "text", send.target, TRUE)
     ELSE /\ cap' = [cap EXCEPT !.pc = "responded",
                                !.resp = DeliveryResponse(send, report)]
          /\ UNCHANGED send
  /\ UNCHANGED <<composeVars, program, client, prevSend, dashVars, dirVars>>

\* the send returned (or raised): the response of the handler
CaptureRespond ==
  /\ cap.pc = "sending"
  /\ send.pc = "done"
  /\ cap' = [cap EXCEPT !.pc = "responded", !.resp = DeliveryResponse(send, report)]
  /\ UNCHANGED <<composeVars, gatewayVars, dirVars>>

\* the response is sent; the request and its client are gone
CaptureReturn ==
  /\ cap.pc = "responded"
  /\ cap' = IdleCapture
  /\ client' = NewClientObject
  /\ send' = IdleSend
  /\ report' = NoReport
  /\ sample' = NoSample
  /\ force22h' = FALSE
  /\ nowHour' = 0
  /\ swept' = NoSweep
  /\ UNCHANGED <<program, prevSend, dashVars, files, now, events>>

(***************************************************************************)
(* Dashboard (src/dashboard.py): the process-wide TOKEN_CACHE, keyed by    *)
(* the session name, get_access_token and the four session handlers. One   *)
(* request is handled at a time; each gateway call is one step.            *)
(***************************************************************************)
Sessions == {"s1", "s2"}

Handlers == {"start", "status", "qr", "logout"}

\* what the gateway can answer to the handler's own request
DashResponses ==
  {[raised |-> TRUE, status |-> 0, body |-> "other"]}
  \cup {[raised |-> FALSE, status |-> st, body |-> "json"] : st \in {200, 401, 404, 500}}
  \cup {[raised |-> FALSE, status |-> 200, body |-> "image"],
        [raised |-> FALSE, status |-> 500, body |-> "other"]}

IdleDash ==
  [pc |-> "idle", handler |-> "none", session |-> "", base |-> "", secret |-> "",
   token |-> "None", gens |-> 0, cleared |-> FALSE, http |-> 0, calls |-> <<>>]

NoPrevAcq ==
  [valid |-> FALSE, gens |-> 0, saw401 |-> FALSE, held |-> FALSE, stale |-> "none"]

\* the base_url and secret_key request parameters ("": not given)
BaseUrls == {"", "b1", "b2"}
SecretKeys == {"", "k1", "k2"}

NoIssue == [base |-> "", secret |-> ""]

\* the handler threads of the dashboard's server (app.run serves each
\* request on a thread of its own)
Threads == {1, 2}

\* a handler thread: where it stands, the token it got, and the number of
\* invalidations that had completed when its acquisition started
IdleThread ==
  [pc |-> "idle", handler |-> "none", token |-> "None", epoch |-> 0, http |-> 0]

\* threads; requests: how many were received; inval: how many invalidations
\* of the session completed; wroteAt: the epoch of the acquisition that
\* wrote the cached token
IdleConc ==
  [threads |-> [t \in Threads |-> IdleThread], requests |-> 0, inval |-> 0,
   wroteAt |-> 0]

InitDashVars ==
  /\ conc = IdleConc
  /\ cache = [s \in Sessions |-> "None"]
  /\ dash = IdleDash
  /\ prevAcq = [s \in Sessions |-> NoPrevAcq]
  /\ issuedFor = [s \in Sessions |-> NoIssue]

\* if session in TOKEN_CACHE: del TOKEN_CACHE[session]
Evict(c, s) == [c EXCEPT ![s] = "None"]

\* mutant: the cache is never consulted
CacheHit_Never(c, s, k) == FALSE

\* get_access_token returns the cached token without a gateway call
CacheHit(c, s, k) == k # "" /\ c[s] # "None"

\* get_access_token: the token a generate-token answer yields ("None": none)
IssuedToken(r) ==
  IF Is2xx(r) /\ r.json /\ ~Falsy(r.token) THEN r.token ELSE "None"

\* the HTTP status the handler answers with, after the gateway answered r
HandlerStatus(h, r) ==
  IF h = "logout"
  THEN IF r.raised \/ r.status \in {200, 201, 404, 401} \/ r.body # "json"
       THEN 200 ELSE r.status
  ELSE IF r.raised THEN 500
  ELSE IF h = "qr" /\ r.body = "image" THEN 200
  ELSE IF r.body = "json" THEN r.status
  ELSE 500

\* a request arrives; the handler runs up to its first gateway call:
\* parameter check, start_session's forced eviction, the cache lookup
DashRequest ==
  /\ program = "dashboard"
  /\ dash.pc = "idle"
  /\ \E h \in Handlers, s \in Sessions \cup {""}, b \in BaseUrls, k \in SecretKeys :
       LET d == [IdleDash EXCEPT !.handler = h, !.session = s, !.base = b, !.secret = k]
       IN  IF s = "" \/ b = ""
           THEN /\ dash' = [d EXCEPT !.pc = "done", !.http = 400]
                /\ UNCHANGED <<cache, prevAcq, issuedFor>>
           ELSE LET c1 == IF h = "start" THEN Evict(cache, s) ELSE cache IN
                /\ cache' = c1
                /\ issuedFor' = IF h = "start" THEN [issuedFor EXCEPT ![s] = NoIssue]
                                ELSE issuedFor
                /\ prevAcq' = IF h = "start" THEN [prevAcq EXCEPT ![s] = NoPrevAcq]
                              ELSE prevAcq
                /\ dash' = IF k = "" THEN [d EXCEPT !.pc = "call"]
                           ELSE IF CacheHit(c1, s, k)
                           THEN [d EXCEPT !.pc = "call", !.token = c1[s]]
                           ELSE [d EXCEPT !.pc = "gen"]
  /\ UNCHANGED <<program, conc, composeVars, clientVars, dirVars, cap>>

\* get_access_token: requests.post(generate-token), then the cache write
DashGenerate ==
  /\ dash.pc = "gen"
  /\ \E r \in GenResponses :
       LET t == IssuedToken(r) IN
       /\ cache' = IF t # "None" THEN [cache EXCEPT ![dash.session] = t] ELSE cache
       /\ issuedFor' = IF t # "None"
                       THEN [issuedFor EXCEPT ![dash.session] =
                               [base |-> dash.base, secret |-> dash.secret]]
                       ELSE issuedFor
       /\ dash' = [dash EXCEPT !.pc = "call", !.token = t, !.gens = @ + 1,
                               !.calls = Append(@, GenCall(r))]
  /\ UNCHANGED <<program, prevAcq, conc, composeVars, clientVars, dirVars, cap>>

\* the handler's own gateway request, with the Authorization header when a
\* token was obtained; logout_session evicts when the request did not raise
DashCall ==
  /\ dash.pc = "call"
  /\ \E r \in DashResponses :
       LET evict == dash.handler = "logout" /\ ~r.raised IN
       /\ cache' = IF evict THEN Evict(cache, dash.session) ELSE cache
       /\ issuedFor' = IF evict THEN [issuedFor EXCEPT ![dash.session] = NoIssue]
                       ELSE issuedFor
       /\ dash' = [dash EXCEPT
                     !.pc = "done", !.cleared = evict,
                     !.http = HandlerStatus(dash.handler, r),
                     !.calls = Append(@,
                        [ep |-> dash.handler,
                         auth |-> IF Falsy(dash.token) THEN "absent" ELSE dash.token,
                         phone |-> <<>>, isGroup |-> FALSE, raised |-> r.raised,
                         status |-> r.status, json |-> r.body = "json",
                         token |-> "None"])]
  /\ UNCHANGED <<program, prevAcq, conc, composeVars, clientVars, dirVars, cap>>

\* the handler returns its response
DashReturn ==
  /\ program = "dashboard"
  /\ dash.pc = "done"
  /\ prevAcq' =
       IF dash.http = 400 /\ dash.calls = <<>> THEN prevAcq
       ELSE IF dash.cleared THEN [prevAcq EXCEPT ![dash.session] = NoPrevAcq]
       ELSE [prevAcq EXCEPT ![dash.session] =
               [valid |-> TRUE, gens |-> dash.gens, saw401 |-> Saw401(dash.calls),
                held |-> cache[dash.session] # "None",
                stale |-> StaleToken(dash.calls)]]
  /\ dash' = IdleDash
  /\ UNCHANGED <<program, cache, issuedFor, conc, composeVars, clientVars, dirVars,
                 cap>>

InitGateway ==
  /\ program \in {"server", "dashboard"}
  /\ InitClientVars
  /\ InitDashVars
  /\ sample = NoSample
  /\ force22h = FALSE
  /\ nowHour = 0
  /\ report = NoReport
  /\ InitDirIdle
  /\ cap = IdleCapture

NextGateway ==
  \/ NewClient
  \/ CallSendImage
  \/ CallSendText
  \/ EnsureToken
  \/ FirstPost
  \/ Reacquire
  \/ RetryPost
  \/ SendReturn
  \/ DashRequest
  \/ DashGenerate
  \/ DashCall
  \/ DashReturn

SpecGateway == InitGateway /\ [][NextGateway]_vars

(***************************************************************************)
(* Dashboard handlers running concurrently (src/dashboard.py): every       *)
(* request is served on its own thread and TOKEN_CACHE has no lock. The    *)
(* requests name one session, base_url and secret_key. A step is one       *)
(* access to TOKEN_CACHE or one gateway call:                              *)
(*   evict / del   start_session: if session in TOKEN_CACHE: del ...       *)
(*   lookup / read get_access_token: if session in TOKEN_CACHE: return ... *)
(*   gen / write   get_access_token: requests.post, TOKEN_CACHE[..] = token*)
(*   call / ldel   the handler's request; logout_session's del             *)
(***************************************************************************)
MaxRequests == 3

ConcSession == "s1"

concRest == <<program, clientVars, dash, prevAcq, composeVars, dirVars, cap>>

Thread(t) == conc.threads[t]

SetThread(t, th) == [conc EXCEPT !.threads[t] = th]

\* an invalidation of the session has completed
Invalidated(c) == [c EXCEPT !.inval = @ + 1]

\* a request arrives and passes the parameter check
ConcRequest(t) ==
  /\ Thread(t).pc = "idle"
  /\ conc.requests < MaxRequests
  /\ \E h \in Handlers :
       conc' = [SetThread(t, [IdleThread EXCEPT
                                !.pc = IF h = "start" THEN "evict" ELSE "lookup",
                                !.handler = h])
                  EXCEPT !.requests = @ + 1]
  /\ UNCHANGED <<cache, issuedFor, concRest>>

\* start_session: if session in TOKEN_CACHE
ConcEvictTest(t) ==
  /\ Thread(t).pc = "evict"
  /\ conc' = IF cache[ConcSession] # "None"
             THEN SetThread(t, [Thread(t) EXCEPT !.pc = "del"])
             ELSE Invalidated(SetThread(t, [Thread(t) EXCEPT !.pc = "lookup"]))
  /\ UNCHANGED <<cache, issuedFor, concRest>>

\* start_session: del TOKEN_CACHE[session]; a KeyError leaves the handler
ConcEvictDel(t) ==
  /\ Thread(t).pc = "del"
  /\ IF cache[ConcSession] # "None"
     THEN /\ cache' = Evict(cache, ConcSession)
          /\ issuedFor' = [issuedFor EXCEPT ![ConcSession] = NoIssue]
          /\ conc' = Invalidated(SetThread(t, [Thread(t) EXCEPT !.pc = "lookup"]))
     ELSE /\ conc' = SetThread(t, [Thread(t) EXCEPT !.pc = "done", !.http = 500])
          /\ UNCHANGED <<cache, issuedFor>>
  /\ UNCHANGED concRest

\* get_access_token: if session in TOKEN_CACHE; a miss starts an acquisition
ConcLookup(t) ==
  /\ Thread(t).pc = "lookup"
  /\ conc' = IF CacheHit(cache, ConcSession, "k1")
             THEN SetThread(t, [Thread(t) EXCEPT !.pc = "read"])
             ELSE SetThread(t, [Thread(t) EXCEPT !.pc = "gen", !.epoch = conc.inval])
  /\ UNCHANGED <<cache, issuedFor, concRest>>

\* get_access_token: return TOKEN_CACHE[session]; a KeyError leaves the handler
ConcRead(t) ==
  /\ Thread(t).pc = "read"
  /\ conc' = IF cache[ConcSession] # "None"
             THEN SetThread(t, [Thread(t) EXCEPT !.pc = "call",
                                                 !.token = cache[ConcSession]])
             ELSE SetThread(t, [Thread(t) EXCEPT !.pc = "done", !.http = 500])
  /\ UNCHANGED <<cache, issuedFor, concRest>>

\* get_access_token: requests.post(generate-token) is answered
ConcGenerate(t) ==
  /\ Thread(t).pc = "gen"
  /\ \E r \in GenResponses :
       conc' = IF IssuedToken(r) # "None"
               THEN SetThread(t, [Thread(t) EXCEPT !.pc = "write",
                                                   !.token = IssuedToken(r)])
               ELSE SetThread(t, [Thread(t) EXCEPT !.pc = "call"])
  /\ UNCHANGED <<cache, issuedFor, concRest>>

\* get_access_token: TOKEN_CACHE[session] = token
ConcWrite(t) ==
  /\ Thread(t).pc = "write"
  /\ cache' = [cache EXCEPT ![ConcSession] = Thread(t).token]
  /\ issuedFor' = [issuedFor EXCEPT ![ConcSession] = [base |-> "b1", secret |-> "k1"]]
  /\ conc' = [SetThread(t, [Thread(t) EXCEPT !.pc = "call"])
                EXCEPT !.wroteAt = Thread(t).epoch]
  /\ UNCHANGED concRest

\* the handler's own gateway request; logout_session then tests
\* session in TOKEN_CACHE when the request did not raise
ConcCall(t) ==
  /\ Thread(t).pc = "call"
  /\ \E r \in DashResponses :
       LET th == [Thread(t) EXCEPT !.http = HandlerStatus(Thread(t).handler, r)] IN
       conc' = IF Thread(t).handler = "logout" /\ ~r.raised
               THEN IF cache[ConcSession] # "None"
                    THEN SetThread(t, [th EXCEPT !.pc = "ldel"])
                    ELSE Invalidated(SetThread(t, [th EXCEPT !.pc = "done"]))
               ELSE SetThread(t, [th EXCEPT !.pc = "done"])
  /\ UNCHANGED <<cache, issuedFor, concRest>>

\* logout_session: del TOKEN_CACHE[session]; a KeyError is caught (200)
ConcLogoutDel(t) ==
  /\ Thread(t).pc = "ldel"
  /\ IF cache[ConcSession] # "None"
     THEN /\ cache' = Evict(cache, ConcSession)
          /\ issuedFor' = [issuedFor EXCEPT ![ConcSession] = NoIssue]
          /\ conc' = Invalidated(SetThread(t, [Thread(t) EXCEPT !.pc = "done"]))
     ELSE /\ conc' = SetThread(t, [Thread(t) EXCEPT !.pc = "done", !.http = 200])
          /\ UNCHANGED <<cache, issuedFor>>
  /\ UNCHANGED concRest

\* the handler returns its response
ConcReturn(t) ==
  /\ Thread(t).pc = "done"
  /\ conc' = SetThread(t, IdleThread)
  /\ UNCHANGED <<cache, issuedFor, concRest>>

InitConcurrent ==
  /\ program = "dashboard"
  /\ InitClientVars
  /\ InitDashVars
  /\ sample = NoSample
  /\ force22h = FALSE
  /\ nowHour = 0
  /\ report = NoReport
  /\ InitDirIdle
  /\ cap = IdleCapture

NextConcurrent ==
  \E t \in Threads :
    \/ ConcRequest(t)
    \/ ConcEvictTest(t)
    \/ ConcEvictDel(t)
    \/ ConcLookup(t)
    \/ ConcRead(t)
    \/ ConcGenerate(t)
    \/ ConcWrite(t)
    \/ ConcCall(t)
    \/ ConcLogoutDel(t)
    \/ ConcReturn(t)

SpecConcurrent == InitConcurrent /\ [][NextConcurrent]_vars

(***************************************************************************)
(* Specification of the sweep: a directory is drawn at Init; the sweep is  *)
(* run on it, directly or by take_fullscreen_screenshot, as time passes.   *)
(***************************************************************************)
MaxFiles == 2
MaxTicks == 1

StartTime == 4 * DaySeconds

\* ages around the cutoffs of a 1-day and of the default 3-day retention
FileTimes ==
  {StartTime - 3 * DaySeconds - 1, StartTime - 3 * DaySeconds,
   StartTime - DaySeconds - 1, StartTime}

Directories ==
  UNION {[1..n -> [name : {<<"old", 0>>}, png : BOOLEAN, mtime : FileTimes]] :
           n \in 0..MaxFiles}

\* the entries are named by their place in the listing
Named(fs) == [i \in 1..Len(fs) |-> [fs[i] EXCEPT !.name = <<"old", i>>]]

RetentionArgs == {NoDays, Days(0), Days(0 - 1), Days(1), Days(3)}

SweepConfigs ==
  {[exists |-> FALSE, retKey |-> "absent", days |-> 0]}
  \cup {[exists |-> TRUE, retKey |-> k, days |-> 0] : k \in {"absent", "null"}}
  \cup {[exists |-> TRUE, retKey |-> "number", days |-> d] : d \in {0, 1}}

InitSweep ==
  /\ \E d \in Directories : files = Named(d)
  /\ now = StartTime
  /\ swept = NoSweep
  /\ events = IdleEvents
  /\ program = "server"
  /\ InitClientVars
  /\ InitDashVars
  /\ sample = NoSample
  /\ force22h = FALSE
  /\ nowHour = 0
  /\ report = NoReport
  /\ cap = IdleCapture

\* cleanup_old_screenshots(retention_days)
RunCleanup ==
  /\ \E ret \in RetentionArgs, listFails \in BOOLEAN, fail \in FailPoints(files) :
       /\ files' = Cleanup(files, now, ret, listFails, fail)
       /\ swept' = [valid |-> TRUE, before |-> files, at |-> now, arg |-> ret,
                    keyAbsent |-> FALSE, raised |-> listFails \/ fail # 0,
                    failAt |-> IF listFails THEN 0 ELSE fail]
  /\ UNCHANGED <<now, events, composeVars, gatewayVars, cap>>

\* take_fullscreen_screenshot(): load_config, the sweep, then the capture
TakeScreenshot ==
  /\ Len(files) <= MaxFiles
  /\ \E config \in SweepConfigs, listFails \in BOOLEAN, fail \in FailPoints(files),
        shotOK \in BOOLEAN :
       /\ files' = AfterScreenshot(files, now, config, listFails, fail, shotOK)
       /\ swept' = [valid |-> config.exists, before |-> files, at |-> now,
                    arg |-> RetentionArg(config),
                    keyAbsent |-> config.retKey = "absent",
                    raised |-> listFails \/ fail # 0,
                    failAt |-> IF listFails THEN 0 ELSE fail]
  /\ UNCHANGED <<now, events, composeVars, gatewayVars, cap>>

\* time passes: a second, or a day
Tick ==
  /\ \E d \in {1, DaySeconds} :
       /\ now + d <= StartTime + MaxTicks * DaySeconds + MaxTicks
       /\ (now + d - StartTime) % DaySeconds <= MaxTicks
       /\ now' = now + d
  /\ UNCHANGED <<files, swept, events, composeVars, gatewayVars, cap>>

NextSweep ==
  \/ RunCleanup
  \/ TakeScreenshot
  \/ Tick

SpecSweep == InitSweep /\ [][NextSweep]_vars

(***************************************************************************)
(* Specification of the capture handler: requests are handled one after    *)
(* the other on a directory that holds an expired and a recent capture.    *)
(***************************************************************************)
InitCapture ==
  /\ files = <<[name |-> <<"old", 1>>, png |-> TRUE,
                mtime |-> StartTime - 3 * DaySeconds - 1],
               [name |-> <<"old", 2>>, png |-> TRUE, mtime |-> StartTime - 1]>>
  /\ now = StartTime
  /\ swept = NoSweep
  /\ events = IdleEvents
  /\ cap = IdleCapture
  /\ program = "server"
  /\ InitClientVars
  /\ InitDashVars
  /\ sample = NoSample
  /\ force22h = FALSE
  /\ nowHour = 0
  /\ report = NoReport

NextCapture ==
  \/ CaptureReceive
  \/ CaptureHandle
  \/ EnsureToken
  \/ FirstPost
  \/ Reacquire
  \/ RetryPost
  \/ CaptureRespond
  \/ CaptureReturn

SpecCapture == InitCapture /\ [][NextCapture]_vars

(***************************************************************************)
(* Capture events handled concurrently (src/server.py:203-333 on the       *)
(* request threads of app.run, src/server.py:438).                         *)
(*                                                                         *)
(* Each thread handles a valid event with a complete configuration: the    *)
(* sweep, the capture, then send_image on the event's own client, which    *)
(* acquires a token, reads and encodes the artifact, and posts it. The     *)
(* threads share the directory and the clock; nothing orders their steps.  *)
(***************************************************************************)
MaxEvents == 3
MaxSeconds == 2

\* max_retention_days of config.json: positive retention windows, of a day
\* and of a second
EventRetentions == {Days(1), DayFraction(DaySeconds)}

EventThread(t) == events.th[t]

SetEvent(t, th) == [events EXCEPT !.th[t] = th]

\* the directory has an entry of that name (open(file_path, "rb") succeeds)
Exists(fs, name) == \E i \in 1..Len(fs) : fs[i].name = name

\* the content records of the entries the directory still has
ContentOf(fs, content) == {c \in content : Exists(fs, c.name)}

\* the event whose capture the file of that name holds
HeldBy(content, name) == (CHOOSE c \in content : c.name = name).by

eventRest == <<composeVars, gatewayVars, swept, cap>>

\* a request arrives at /api/capture and gets a thread
EventReceive(t) ==
  /\ EventThread(t).pc = "idle"
  /\ events.received < MaxEvents
  /\ \E ret \in EventRetentions :
       events' = [events EXCEPT
                    !.received = @ + 1,
                    !.th[t] = [IdleEvent EXCEPT !.pc = "sweep",
                                                !.id = events.received + 1,
                                                !.ret = ret]]
  /\ UNCHANGED <<files, now, eventRest>>

\* take_fullscreen_screenshot: cleanup_old_screenshots(max_retention_days)
EventSweep(t) ==
  /\ EventThread(t).pc = "sweep"
  /\ \E listFails \in BOOLEAN, fail \in FailPoints(files) :
       /\ files' = Cleanup(files, now, EventThread(t).ret, listFails, fail)
       /\ events' = [events EXCEPT !.th[t].pc = "shot",
                                   !.content = ContentOf(files', @)]
  /\ UNCHANGED <<now, eventRest>>

\* take_fullscreen_screenshot: path = capture_<now>.png, img.save(path).
\* Without a screenshot the event sends text and holds no artifact.
EventShot(t) ==
  /\ EventThread(t).pc = "shot"
  /\ \E shotOK \in BOOLEAN :
       IF shotOK
       THEN LET path == CaptureName(now)
                w == [name |-> path, by |-> EventThread(t).id]
            IN  /\ files' = Saved(files, now)
                /\ events' = [events EXCEPT
                                !.th[t].pc = "token",
                                !.th[t].path = path,
                                !.content = {c \in @ : c.name # path} \cup {w},
                                !.writers = @ \cup {w}]
       ELSE /\ events' = SetEvent(t, [EventThread(t) EXCEPT !.pc = "done"])
            /\ UNCHANGED files
  /\ UNCHANGED <<now, eventRest>>

\* send_image on the event's new client: the generate-token call
EventToken(t) ==
  /\ EventThread(t).pc = "token"
  /\ \E r \in GenResponses :
       events' = SetEvent(t, [EventThread(t) EXCEPT
                                !.pc = IF GenerateOk(r) THEN "encode" ELSE "done"])
  /\ UNCHANGED <<files, now, eventRest>>

\* send_image: open(file_path, "rb").read() and the base64 encoding; a
\* missing file is the "Image encoding error" and send_image returns False
EventEncode(t) ==
  /\ EventThread(t).pc = "encode"
  /\ events' = SetEvent(t,
       IF Exists(files, EventThread(t).path)
       THEN [EventThread(t) EXCEPT !.pc = "post",
                                   !.read = HeldBy(events.content, EventThread(t).path)]
       ELSE [EventThread(t) EXCEPT !.pc = "done"])
  /\ UNCHANGED <<files, now, eventRest>>

\* send_image: the send-image post and its outcome
EventPost(t) ==
  /\ EventThread(t).pc = "post"
  /\ \E r \in SendResponses :
       events' = SetEvent(t, [EventThread(t) EXCEPT
                                !.pc = "done", !.ret_ok = Is2xx(r)])
  /\ UNCHANGED <<files, now, eventRest>>

\* the response is sent; the thread is free again
EventReturn(t) ==
  /\ EventThread(t).pc = "done"
  /\ events' = SetEvent(t, IdleEvent)
  /\ UNCHANGED <<files, now, eventRest>>

\* a second passes
Second ==
  /\ now < StartTime + MaxSeconds
  /\ now' = now + 1
  /\ UNCHANGED <<files, events, eventRest>>

InitEvents ==
  /\ files = <<>>
  /\ now = StartTime
  /\ swept = NoSweep
  /\ events = IdleEvents
  /\ cap = IdleCapture
  /\ program = "server"
  /\ InitClientVars
  /\ InitDashVars
  /\ sample = NoSample
  /\ force22h = FALSE
  /\ nowHour = 0
  /\ report = NoReport

NextEvents ==
  \/ \E t \in CaptureThreads :
       \/ EventReceive(t)
       \/ EventSweep(t)
       \/ EventShot(t)
       \/ EventToken(t)
       \/ EventEncode(t)
       \/ EventPost(t)
       \/ EventReturn(t)
  \/ Second

SpecEvents == InitEvents /\ [][NextEvents]_vars

(***************************************************************************)
(* Claims about the gateway client, checked under SpecGateway.             *)
(***************************************************************************)
SendDone == send.pc = "done"
Posts == PostCalls(send.calls)

FirstPostGot401 == Len(Posts) >= 1 /\ ~Posts[1].raised /\ Posts[1].status = 401
RetryGot(st) == Len(Posts) = 2 /\ ~Posts[2].raised /\ Posts[2].status = st

\* C1 as stated: 401 then 200 on the retry is success; 401 then 401 is
\* failure, with exactly two network calls made during that send.
C1_RetryLawTwoCalls ==
  SendDone =>
    /\ (FirstPostGot401 /\ RetryGot(200)) => send.ret = TRUE
    /\ (FirstPostGot401 /\ RetryGot(401)) =>
         (send.ret = FALSE /\ Len(send.calls) = 2)

\* C1 as amended: 401 then 200 on the retry is success; 401 then 401 is
\* failure, with exactly two send requests made during that send, and a
\* generate-token call between them (preceded by one more generate-token
\* call when the client held no token on entry): three or four network calls.
C1_RetryLawTwoPosts ==
  SendDone =>
    /\ (FirstPostGot401 /\ RetryGot(200)) => send.ret = TRUE
    /\ (FirstPostGot401 /\ RetryGot(401)) =>
         /\ send.ret = FALSE
         /\ Len(Posts) = 2
         /\ Len(send.calls) \in {3, 4}
         /\ LET n == Len(send.calls) IN
            /\ send.calls[n].ep # "generate-token"
            /\ send.calls[n - 1].ep = "generate-token"
            /\ send.calls[n - 2].ep # "generate-token"
            /\ n = 4 => send.calls[1].ep = "generate-token"

C1_Witness ==
  /\ SendDone
  /\ FirstPostGot401
  /\ RetryGot(401)
  /\ Len(send.calls) = 3
  /\ send.ret = FALSE

\* the first call of the send was the token issuance and it gave no token:
\* it raised, answered non-2xx, or answered 2xx without a token in the body
NoTokenObtained ==
  /\ Len(send.calls) >= 1
  /\ send.calls[1].ep = "generate-token"
  /\ \/ send.calls[1].raised
     \/ send.calls[1].status \notin {200, 201}
     \/ ~send.calls[1].json
     \/ Falsy(send.calls[1].token)

\* C2: when no token can be obtained the send returns false and no
\* send-image / send-message request is issued.
C2_NoTokenNoSend ==
  NoTokenObtained =>
    /\ Posts = <<>>
    /\ SendDone => send.ret = FALSE

RECURSIVE DropLeadingPlus(_)
DropLeadingPlus(s) ==
  IF s # <<>> /\ Head(s) = "+" THEN DropLeadingPlus(Tail(s)) ELSE s

\* C9 as stated: a target holding "@g.us" goes out verbatim with isGroup
\* true; any other target goes out with isGroup false and only its leading
\* '+' characters stripped.
C9_LeadingPlusStripped ==
  \A i \in 1..Len(Posts) :
    IF Contains(send.target, <<"@", "g", ".", "u", "s">>)
    THEN Posts[i].phone = send.target /\ Posts[i].isGroup
    ELSE Posts[i].phone = DropLeadingPlus(send.target) /\ ~Posts[i].isGroup

\* C9 as amended: a target holding "@g.us" goes out verbatim with isGroup
\* true; any other target goes out with isGroup false and every '+'
\* character removed, leading or not, the other characters kept in order.
C9_EveryPlusRemoved ==
  \A i \in 1..Len(Posts) :
    IF Contains(send.target, <<"@", "g", ".", "u", "s">>)
    THEN Posts[i].phone = send.target /\ Posts[i].isGroup
    ELSE /\ Posts[i].phone = SelectSeq(send.target, LAMBDA c : c # "+")
         /\ ~Posts[i].isGroup

C9_Witness ==
  /\ Len(Posts) >= 1
  /\ send.target = <<"8", "+", "4">>
  /\ Posts[1].phone = <<"8", "4">>
  /\ ~Posts[1].isGroup

\* two sends in sequence (the earlier one summarised in prevSend), neither
\* with a 401 answer
TwoSendsNo401 ==
  /\ SendDone
  /\ prevSend.valid
  /\ ~prevSend.saw401
  /\ ~Saw401(send.calls)

\* two get_access_token calls in sequence for the session of the request
\* being answered, no eviction and no 401 answer between them
TwoAcquisitionsNo401 ==
  /\ dash.pc = "done"
  /\ dash.calls # <<>>
  /\ prevAcq[dash.session].valid
  /\ ~prevAcq[dash.session].saw401

\* C10 as stated: two token-ensuring operations in sequence for one session,
\* with no intervening 401 and no explicit invalidation, issue at most one
\* generate-token call in total, whatever the outcome of the first.
C10_AtMostOneGenerate ==
  /\ TwoSendsNo401 => prevSend.gens + Len(GenCalls(send.calls)) <= 1
  /\ TwoAcquisitionsNo401 => prevAcq[dash.session].gens + dash.gens <= 1

\* What the code does keep of idempotence: two sends in sequence on the same
\* client object, or two get_access_token calls in sequence for one session
\* of the dashboard, with no intervening 401 and no explicit invalidation,
\* issue at most one generate-token call in total when the first ended
\* holding a token: the second then issues none. A second operation that
\* finds no token held (the first acquisition failed, or the client object
\* is a new one, as for every capture event) issues its own generate-token
\* call.
C10_OneGenerateWhileHeld ==
  /\ TwoSendsNo401 =>
       /\ (send.reused /\ prevSend.held) =>
            /\ GenCalls(send.calls) = <<>>
            /\ prevSend.gens + Len(GenCalls(send.calls)) <= 1
       /\ ~(send.reused /\ prevSend.held) => Len(GenCalls(send.calls)) = 1
  /\ TwoAcquisitionsNo401 =>
       /\ prevAcq[dash.session].held =>
            /\ dash.gens = 0
            /\ prevAcq[dash.session].gens + dash.gens <= 1
       /\ (~prevAcq[dash.session].held /\ dash.secret # "") => dash.gens = 1

\* a second send on a client that still holds the token of the first
C10_Witness ==
  /\ TwoSendsNo401
  /\ send.reused
  /\ prevSend.held
  /\ prevSend.gens = 1
  /\ Len(Posts) = 1
  /\ send.ret = TRUE

\* the calls of the send from its first send request on
FromFirstPost ==
  IF Posts = <<>> THEN <<>>
  ELSE LET first == CHOOSE i \in 1..Len(send.calls) :
                      /\ send.calls[i].ep # "generate-token"
                      /\ \A j \in 1..(i - 1) : send.calls[j].ep = "generate-token"
       IN  SubSeq(send.calls, first, Len(send.calls))

Reacquisitions == GenCalls(FromFirstPost)

\* C16: per send operation at most two send requests and at most one token
\* re-acquisition after the first send request; a first response that is
\* neither 2xx nor 401 is terminal (false, no retry, no regeneration); when
\* the re-acquisition after a 401 fails no second send request is issued and
\* the operation returns false.
C16_BoundedCalls ==
  /\ Len(Posts) <= 2
  /\ Len(Reacquisitions) <= 1
  /\ Len(send.calls) <= 4
  /\ (Len(Posts) >= 1 /\ ~Posts[1].raised /\ Posts[1].status \notin 200..299
        /\ Posts[1].status # 401) =>
       /\ send.pc = "done"
       /\ send.ret = FALSE
       /\ Len(Posts) = 1
       /\ Reacquisitions = <<>>
  /\ (Len(Reacquisitions) = 1 /\ ~GenerateOk(Reacquisitions[1])) =>
       /\ FirstPostGot401
       /\ send.pc = "done"
       /\ send.ret = FALSE
       /\ Len(Posts) = 1
  /\ Len(Posts) = 2 => FirstPostGot401 /\ GenerateOk(Reacquisitions[1])

\* the first request was answered 401 and the re-acquisition failed
C16_Witness ==
  /\ SendDone
  /\ FirstPostGot401
  /\ Len(Reacquisitions) = 1
  /\ Reacquisitions[1].status = 500
  /\ Len(Posts) = 1
  /\ send.ret = FALSE

\* C18: every network-level or I/O exception raised during token issuance,
\* image encoding or a send request becomes a False return of send_image /
\* send_text and never leaves the call; after such a failure the client
\* object is usable for a further send: the further send proceeds as on any
\* client (it acquires a token when none is held, else posts its request).
C18_ExceptionsBecomeFalse ==
  /\ ~send.raises
  /\ (SendDone /\ Excepted(send)) => send.ret = FALSE
  /\ (send.reused /\ prevSend.excepted /\ send.pc # "idle") =>
       /\ send.calls = <<>> =>
            \/ send.pc = IF prevSend.held THEN "post1" ELSE "gen0"
            \/ send.pc = "done" /\ send.kind = "image" /\ ~send.fileOK
       /\ send.calls # <<>> =>
            send.calls[1].ep = IF prevSend.held
                               THEN (IF send.kind = "image" THEN "send-image"
                                     ELSE "send-message")
                               ELSE "generate-token"

\* a send delivers on a client whose previous send ended in an exception
C18_Witness ==
  /\ SendDone
  /\ send.reused
  /\ prevSend.excepted
  /\ ~prevSend.held
  /\ send.ret = TRUE
  /\ Len(send.calls) = 2

\* a request i of calls carries token t with no successful generate-token
\* call before it among calls
CarriesAgain(calls, t) ==
  \E i \in 1..Len(calls) :
    /\ calls[i].ep # "generate-token"
    /\ calls[i].auth = t
    /\ \A j \in 1..(i - 1) :
         ~(calls[j].ep = "generate-token" /\ GenerateOk(calls[j]))

\* C13: once a gateway request carrying token T has been answered with 401,
\* no later gateway request of the same client / session carries T again
\* (T as it was held then, not a token acquired anew), also when the
\* re-acquisition that follows the 401 fails.
C13_StaleTokenNotReused ==
  /\ (send.reused /\ prevSend.stale # "none") =>
       ~CarriesAgain(send.calls, prevSend.stale)
  /\ (dash.session # "" /\ prevAcq[dash.session].stale # "none") =>
       ~CarriesAgain(dash.calls, prevAcq[dash.session].stale)
  /\ \A i \in 1..Len(send.calls) :
       StaleToken(SubSeq(send.calls, 1, i)) # "none" =>
         ~CarriesAgain(SubSeq(send.calls, i + 1, Len(send.calls)),
                       StaleToken(SubSeq(send.calls, 1, i)))

\* logout_session passed its parameter check, made its request to the
\* gateway (answered or not) and is about to return
LogoutReturns ==
  /\ dash.pc = "done"
  /\ dash.handler = "logout"
  /\ dash.calls # <<>>

\* C23: after logout_session returns for a session, whatever the gateway
\* answered and also when the logout request raised a network error, the
\* token cache holds no token for that session, so that the next request
\* with a secret key misses the cache and issues a generate-token call.
C23_LogoutAlwaysEvicts ==
  LogoutReturns =>
    /\ cache[dash.session] = "None"
    /\ \A k \in SecretKeys : ~CacheHit(cache, dash.session, k)

\* the request being handled has its token and is about to call the gateway
HasToken == dash.pc = "call" /\ dash.token # "None"

\* C12: a non-null token stored or returned for a session was issued by the
\* gateway for exactly the (base_url, session_id, secret_key) triple of the
\* request that uses it, after any sequence of requests naming the same
\* session with different base_url or secret_key values.
C12_TokenOfOwnTriple ==
  HasToken =>
    /\ dash.token = cache[dash.session]
    /\ issuedFor[dash.session] = [base |-> dash.base, secret |-> dash.secret]

(***************************************************************************)
(* Claims about the concurrent dashboard handlers, checked under           *)
(* SpecConcurrent.                                                         *)
(***************************************************************************)
\* C14: a token acquisition that started before an invalidation never writes
\* its token into the cache after that invalidation: the cache holds for the
\* session either nothing or a token whose acquisition started after the
\* last completed invalidation.
C14_NoResurrection ==
  cache[ConcSession] # "None" => conc.wroteAt = conc.inval

(***************************************************************************)
(* Specification of the composer alone: the payload is drawn at Init and   *)
(* the composer is applied to it.                                          *)
(***************************************************************************)
DCForms ==
  {Absent, DictNoValue, Dict(<<" ">>), Dict(<<"1", "2">>), Dict(<<" ", "3", " ">>),
   Dict(<<"x">>), DictNotFound(<<"1", "2">>), Bare(<<"7">>)}

AWSForms == {Absent, Dict(<<>>), Dict(<<"5", ".", "3">>), Bare(<<" ", "4">>)}

TAPForms ==
  {Absent, Dict(<<" ">>), Dict(<<"-", "2", ".", "1">>), Dict(<<"2", ".", "1">>),
   Dict(<<"-", "0">>), Dict(<<"0">>), Dict(<<"x">>), Dict(<<"-">>),
   Dict(<<"1", ".", "2", ".", "3">>), Bare(<<"-", ".", "5", " ">>)}

FForms == {Absent, Dict(<<"1">>), Dict(<<"-", "3">>), Dict(<<"x">>), DictNum}

MForms == {Absent, Dict(<<"1">>), Dict(<<"1", ".", "5">>), Dict(<<"1", "3">>)}

DEGForms == {Absent, Dict(<<" ">>), Dict(<<"1", "5", "0">>)}

Samples ==
  {[DC |-> a, AWS |-> b, TAP |-> c, F |-> d, M |-> e, DEG |-> g] :
     a \in DCForms, b \in AWSForms, c \in TAPForms,
     d \in FForms, e \in MForms, g \in DEGForms}

InitCompose ==
  /\ sample \in Samples
  /\ force22h \in BOOLEAN
  /\ nowHour \in Hours
  /\ report = NoReport
  /\ program = "server"
  /\ InitClientVars
  /\ InitDashVars
  /\ InitDirIdle
  /\ cap = IdleCapture

ComposeReport ==
  /\ report.kind = "none"
  /\ report' = Compose(sample, force22h, nowHour)
  /\ UNCHANGED <<sample, force22h, nowHour, gatewayVars, dirVars, cap>>

NextCompose == ComposeReport

SpecCompose == InitCompose /\ [][NextCompose]_vars

(***************************************************************************)
(* Claims about the composer, checked under SpecCompose.                   *)
(***************************************************************************)
Composed == report.kind # "none"

\* every "value" of the sample is a string, as the Measurement Sample requires
WellTyped == \A n \in FieldNames : sample[n].form # "dictnum"

\* the field is absent, has no value, or its value is blank after trimming
FieldBlank(n) ==
  \/ sample[n].form = "absent"
  \/ ~sample[n].hasValue
  \/ \A i \in 1..Len(sample[n].value) : sample[n].value[i] \in Whitespace

RequiredBlank == SelectSeq(<<"DC", "AWS", "TAP">>, FieldBlank)

\* msg is the header followed by the names, separated by ", "
ListsExactly(msg, names) ==
  /\ Len(msg) = 2 * Len(names)
  /\ msg[1] = "Missing required fields: "
  /\ \A k \in 1..Len(names) :
       /\ msg[2 * k] = names[k]
       /\ k < Len(names) => msg[2 * k + 1] = ", "

\* C4: a sample with any of DC, AWS, TAP absent or blank after trimming gets
\* the 400 validation error whose message lists exactly the missing fields,
\* all of them, in the order DC, AWS, TAP; a sample with all three non-blank
\* never gets a missing-fields error.
C4_MissingFieldsListed ==
  (Composed /\ WellTyped) =>
    /\ RequiredBlank # <<>> =>
         /\ report.kind = "missing"
         /\ report.status = 400
         /\ ListsExactly(report.error, RequiredBlank)
    /\ RequiredBlank = <<>> => report.kind # "missing"

C4_Witness ==
  /\ report.kind = "missing"
  /\ Len(RequiredBlank) >= 2
  /\ ListsExactly(report.error, RequiredBlank)

TapText == GetVal(sample, "TAP")
DegText == GetVal(sample, "DEG")
TapNegative == IsFloat(TapText) /\ FloatIsNegative(TapText)
EveningCase == (nowHour = 22 \/ force22h) /\ ~FieldBlank("DEG")

\* C5 as stated: with TAP < 0 the caption is the fixed message whatever the
\* other fields, the hour and force_22h are.
C5_StoppedCaptionAlone ==
  (report.kind = "ok" /\ TapNegative) => report.caption = StoppedCaption

\* C5 as amended: with TAP < 0 the caption is the fixed message, whatever DC,
\* F, M and AWS are, followed by the evening addendum exactly when the hour is
\* 22 or force_22h is set and DEG is non-blank.
C5_StoppedCaptionThenEvening ==
  (report.kind = "ok" /\ TapNegative) =>
    /\ report.caption[1] = StoppedCaption[1]
    /\ ~EveningCase => report.caption = StoppedCaption
    /\ EveningCase => report.caption = StoppedCaption \o EveningAddendum(DegText)

C5_Witness ==
  /\ report.kind = "ok"
  /\ TapNegative
  /\ ~FieldBlank("F")
  /\ report.caption = StoppedCaption

\* the caption ends with the evening clause
HasAddendum(c) == Len(c) >= 3 /\ c[Len(c)] = " MWh."

\* C6: the evening addendum is appended if and only if (hour = 22 or
\* force_22h) and DEG is non-blank, in the TAP < 0 branch as in the other;
\* otherwise the main caption is left as it is.
C6_EveningIffDue ==
  report.kind = "ok" =>
    LET main == MainCaption(ActiveDevices(GetVal(sample, "DC"), GetVal(sample, "F"),
                                          GetVal(sample, "M")),
                            GetVal(sample, "AWS"), TapText)
    IN  /\ HasAddendum(report.caption) <=> EveningCase
        /\ EveningCase => report.caption = main \o EveningAddendum(DegText)
        /\ ~EveningCase => report.caption = main

C6_Witness ==
  /\ report.kind = "ok"
  /\ TapNegative
  /\ nowHour # 22
  /\ force22h
  /\ HasAddendum(report.caption)

\* C7: with TAP >= 0 the caption holds, in the templated sentence, the
\* computed active_devices, the AWS text and the TAP text as received after
\* trimming.
C7_ActiveCaptionVerbatim ==
  (report.kind = "ok" /\ ~TapNegative) =>
    LET active == ActiveDevices(GetVal(sample, "DC"), GetVal(sample, "F"),
                                GetVal(sample, "M"))
        c == report.caption
        a == Len(active.text)
        w == Len(GetVal(sample, "AWS"))
        t == Len(TapText)
    IN  /\ c[1] = "BC BLD: Hien tai "
        /\ SubSeq(c, 2, a + 1) = active.text
        /\ c[a + 2] = " TB dang hoat dong, "
        /\ c[a + 3] = "toc do gio "
        /\ SubSeq(c, a + 4, a + w + 3) = GetVal(sample, "AWS")
        /\ c[a + w + 4] = " m/s, "
        /\ c[a + w + 5] = "cong suat phat "
        /\ SubSeq(c, a + w + 6, a + w + t + 5) = TapText
        /\ c[a + w + t + 6] = " MW."

C7_Witness ==
  /\ report.kind = "ok"
  /\ ~TapNegative
  /\ report.values.active = <<"-", "2">>
  /\ Contains(report.caption, <<"BC BLD: Hien tai ", "-", "2", " TB dang hoat dong, ">>)
  /\ Contains(report.caption, <<"toc do gio ", "4", " m/s, ">>)

\* a blank F or M counts as 0
CountOf(x) == IF x = <<>> THEN 0 ELSE IntVal(x)

BlankOrInt(x) == x = <<>> \/ IsInt(x)

\* C19: active_devices is DC - F - M when DC parses as an integer and each of
\* F and M is blank (counted as 0) or parses as an integer; if one of the
\* three fails integer parsing it is the raw DC string, and the event is
\* still processed: a sample that passes the validation of DC, AWS and TAP
\* is composed whatever the integer parsing gives.
C19_ActiveDevices ==
  Composed =>
    LET dc == GetVal(sample, "DC")
        f == GetVal(sample, "F")
        m == GetVal(sample, "M")
        active == report.values.active
    IN  /\ (WellTyped /\ RequiredBlank = <<>> /\ IsFloat(TapText)) => report.kind = "ok"
        /\ report.kind = "ok" =>
             IF IsInt(dc) /\ BlankOrInt(f) /\ BlankOrInt(m)
             THEN /\ IsInt(active)
                  /\ IntVal(active) = IntVal(dc) - CountOf(f) - CountOf(m)
                  /\ active = IntToStr(IntVal(active))
             ELSE active = dc

\* 12 - (-3) - 13 = 2
C19_Witness ==
  /\ report.kind = "ok"
  /\ GetVal(sample, "DC") = <<"1", "2">>
  /\ GetVal(sample, "F") = <<"-", "3">>
  /\ GetVal(sample, "M") = <<"1", "3">>
  /\ report.values.active = <<"2">>

(***************************************************************************)
(* Claims about the capture handler, checked under SpecCapture.            *)
(***************************************************************************)
Responded == cap.pc = "responded"

\* the gateway answered the last send request of the event with 200 or 201
Delivered ==
  /\ Len(Posts) >= 1
  /\ ~Posts[Len(Posts)].raised
  /\ Posts[Len(Posts)].status \in {200, 201}

\* the status the claim gives each request, from the inputs of the request
\* and the answers of the gateway
ExpectedStatus ==
  IF cap.payload = "none" THEN 400
  ELSE IF ~cap.config.exists \/ cap.payload # "sample" THEN 500
  ELSE IF ~WellTyped THEN 500
  ELSE IF RequiredBlank # <<>> \/ ~IsFloat(TapText) THEN 400
  ELSE IF ~cap.config.wpp \/ ~cap.config.hasPhone
            \/ cap.config.phone = NonStringTarget THEN 500
  ELSE IF Delivered THEN 200
  ELSE 500

\* C3: every handled request ends in one structured outcome: 400 with
\* success false for a missing payload or a validation error, 500 with
\* success false for a delivery or processing failure (missing config keys
\* included), 200 with success true, the caption and the values on success;
\* no fault leaves the handler.
C3_StructuredOutcome ==
  /\ cap.pc \in {"idle", "received", "sending", "responded"}
  /\ Responded =>
       /\ cap.resp.status \in {200, 400, 500}
       /\ cap.resp.status = ExpectedStatus
       /\ cap.resp.success <=> cap.resp.status = 200
       /\ cap.resp.status = 200 =>
            /\ cap.resp.error = <<>>
            /\ cap.resp.caption # <<>>
            /\ cap.resp.caption = report.caption
            /\ cap.resp.values = report.values
            /\ cap.resp.values.TAP = TapText
       /\ cap.resp.status # 200 =>
            /\ cap.resp.error # <<>>
            /\ cap.resp.caption = <<>>

C3_Witness ==
  /\ Responded
  /\ report.kind = "ok"
  /\ ~cap.config.wpp
  /\ cap.resp.status = 500
  /\ ~cap.resp.success

\* the payload is a sample that passes the validation
ValidEvent ==
  /\ cap.payload = "sample"
  /\ WellTyped
  /\ RequiredBlank = <<>>
  /\ IsFloat(TapText)

\* config.json exists and holds the gateway keys and phone_number
ConfigComplete == cap.config.exists /\ cap.config.wpp /\ cap.config.hasPhone

\* one delivery operation: send_image when the capture produced an artifact,
\* send_text with the caption when it failed; every send request of the
\* event is of that operation
OneDelivery ==
  /\ Len(cap.ops) = 1
  /\ cap.ops[1].kind = IF cap.shot THEN "image" ELSE "text"
  /\ cap.ops[1].caption = report.caption
  /\ cap.ops[1].caption # <<>>
  /\ send.kind = cap.ops[1].kind
  /\ \A i \in 1..Len(Posts) :
       Posts[i].ep = IF cap.shot THEN "send-image" ELSE "send-message"

\* C17 as stated: for every valid event the handler issues exactly one
\* delivery operation, send_image with an artifact, send_text without.
C17_OneDeliveryPerValidEvent ==
  (Responded /\ ValidEvent) => OneDelivery

\* C17 as amended: for every valid event handled with a complete
\* configuration the handler issues exactly one delivery operation,
\* send_image with an artifact, send_text with the caption without; a failed
\* send_image is not followed by a send_text. With config.json missing or
\* without a gateway key or phone_number it issues none.
C17_OneDeliveryWhenConfigured ==
  (Responded /\ ValidEvent) =>
    /\ ConfigComplete => OneDelivery
    /\ ~ConfigComplete => cap.ops = <<>> /\ send.calls = <<>> /\ cap.resp.status = 500

\* the screenshot failed, the report went out as text
C17_Witness ==
  /\ Responded
  /\ ValidEvent
  /\ ~cap.shot
  /\ cap.ops # <<>>
  /\ cap.ops[1].kind = "text"
  /\ Len(Posts) = 1
  /\ Posts[1].ep = "send-message"
  /\ cap.resp.success

\* the gateway answered the last send request of the event with a 2xx status
Answered2xx ==
  /\ Len(Posts) >= 1
  /\ ~Posts[Len(Posts)].raised
  /\ Posts[Len(Posts)].status \in 200..299

\* C11 as stated: the handler reports success = true if and only if the
\* gateway answered the (possibly retried) send request of the event with a
\* 2xx status.
C11_SuccessIff2xx == Responded => (cap.resp.success <=> Answered2xx)

\* C11 as amended: the handler reports success = true if and only if the
\* gateway answered the (possibly retried) send request of the event with
\* status 200 or 201; in every other case, also when the screenshot and the
\* caption were produced, the response is a failure (success false, no
\* caption, a status that is not 200).
C11_SuccessIff200Or201 ==
  Responded =>
    /\ cap.resp.success <=> Delivered
    /\ ~Delivered => /\ cap.resp.status # 200
                     /\ cap.resp.caption = <<>>

\* the screenshot and the caption exist, the gateway refused the send
C11_Witness ==
  /\ Responded
  /\ cap.shot
  /\ report.kind = "ok"
  /\ Len(Posts) = 2
  /\ Posts[2].status = 500
  /\ ~cap.resp.success

(***************************************************************************)
(* Claims about the retention sweep, checked under SpecSweep.              *)
(***************************************************************************)
StillThere(f) == \E j \in 1..Len(files) : files[j] = f

\* C8: the sweep deletes every .png whose modification time is strictly
\* older than now minus retentionDays days, no newer one and no other file;
\* with retentionDays 0, negative or absent, also when config.json does not
\* define max_retention_days, it deletes nothing.
C8_SweepDeletesExactlyExpired ==
  swept.valid =>
    LET cutoff == swept.at - Window(swept.arg)
        sweeping == swept.arg.defined /\ swept.arg.days > 0 /\ ~swept.keyAbsent
    IN  \A i \in 1..Len(swept.before) :
          LET f == swept.before[i] IN
          IF sweeping /\ f.png /\ f.mtime < cutoff
          THEN ~StillThere(f)
          ELSE StillThere(f)

\* the sweep ran with a positive retention and entry i was an expired .png
Expired(i) ==
  /\ swept.arg.defined /\ swept.arg.days > 0
  /\ swept.before[i].png
  /\ swept.before[i].mtime < swept.at - Window(swept.arg)

\* C15: a deletion error on one file does not abort the sweep: every other
\* expired .png, those listed after the failing file included, is still
\* deleted.
C15_ErrorDoesNotAbort ==
  (swept.valid /\ swept.failAt # 0 /\ Expired(swept.failAt)) =>
    \A i \in 1..Len(swept.before) :
      (i # swept.failAt /\ Expired(i)) => ~StillThere(swept.before[i])

(***************************************************************************)
(* Order of the pipeline within one event, checked under SpecCapture.      *)
(***************************************************************************)
\* the handler is past take_fullscreen_screenshot
PastScreenshot ==
  /\ cap.pc \in {"sending", "responded"}
  /\ cap.payload = "sample"
  /\ cap.config.exists

\* the capture of this event is in the directory
CaptureSaved ==
  \E j \in 1..Len(files) :
    /\ files[j].name = CaptureName(now)
    /\ files[j].png
    /\ files[j].mtime = now

\* the answer is a validation error
ValidationFailed ==
  /\ Responded
  /\ cap.payload = "sample"
  /\ cap.resp.status = 400

\* C20: within one event the retention sweep comes first, then the
\* screenshot, then the validation and composition of the report, then the
\* delivery: whatever the validation gives, the sweep has run and the capture
\* is saved before it; a delivery is under way only for a composed report;
\* when the validation fails the handler answers the client error with no
\* generate-token and no send request issued, and no delivery is tried.
C20_PipelineOrder ==
  /\ PastScreenshot =>
       /\ swept.valid
       /\ swept.at = now
       /\ ~swept.raised =>
            \A i \in 1..Len(swept.before) :
              Expired(i) => ~StillThere(swept.before[i])
       /\ cap.shot => CaptureSaved
  /\ cap.pc = "sending" => report.kind = "ok" /\ cap.ops # <<>>
  /\ send.pc # "idle" => cap.pc \in {"sending", "responded"} /\ report.kind = "ok"
  /\ ValidationFailed =>
       /\ report.kind \in {"missing", "invalid_tap"}
       /\ send.pc = "idle"
       /\ send.calls = <<>>
       /\ cap.ops = <<>>
       /\ client = NewClientObject

\* a sample without DC and TAP: the expired capture was swept and the new
\* one saved, then the validation failed and nothing was sent
C20_Witness ==
  /\ ValidationFailed
  /\ report.kind = "missing"
  /\ cap.shot
  /\ CaptureSaved
  /\ Len(swept.before) = 2
  /\ Expired(1)
  /\ ~StillThere(swept.before[1])
  /\ send.calls = <<>>

(***************************************************************************)
(* Claims about concurrent capture events.                                 *)
(***************************************************************************)
\* the event of thread t has saved its artifact and send_image has not yet
\* read it
AwaitsEncoding(t) == EventThread(t).pc \in {"token", "encode"}

\* C21: with concurrent capture events and a positive retention window, the
\* artifact an event has captured and not yet read for sending is still in
\* the directory: no sweep of another event has removed it.
C21_FreshArtifactSurvives ==
  \A t \in CaptureThreads :
    AwaitsEncoding(t) => Exists(files, EventThread(t).path)

\* C22: every artifact path is written by one event only, also for events
\* handled within the same clock second, and the image an event has read
\* for sending is the one that event captured.
C22_OwnArtifact ==
  /\ \A w1 \in events.writers, w2 \in events.writers :
       w1.name = w2.name => w1.by = w2.by
  /\ \A t \in CaptureThreads :
       EventThread(t).pc = "post" => EventThread(t).read = EventThread(t).id


====
